---- MODULE Spec2Model ----
(***************************************************************************)
(* CareLink sign detector: the capture / record / detect / speak workflow  *)
(* of the SignDetector component and of the SignLanguageAPI client.        *)
(* One action per event-loop task: a click handler, a timer callback, a    *)
(* recorder event, or the continuation of an await.                        *)
(***************************************************************************)
EXTENDS Naturals, Sequences, FiniteSets

\* ---- bounds of the model ----
MaxCameraCalls == 2     \* startCamera clicks of a session
MaxRecorders == 2       \* recordings of a session
RaceRecorders == 3      \* recordings of a session on a single camera grant
MaxSpeaks == 2          \* speakResult clicks
SpeakRecorders == 1     \* recordings of the session the vocalizer runs next to
MountRecorders == 1     \* recordings of the session the mount-time fetches run next to
UnmountRecorders == 1   \* recordings of the session that is navigated away from
WholeRecorders == 1     \* recordings of the session with every operation of the component

\* ---- values ----
None == 0
FailureString == "Detection failed - check backend connection"
ResultTexts == {"I want water"}
SignLists == {<<"water", "food">>}

VARIABLES
  mounted,          \* the component is mounted (videoRef.current is non-null)
  result, isRecording, isProcessing, isCameraActive,
  apiHealth, supportedSigns, isSpeaking,
  srcObject,        \* videoRef.current.srcObject: None or a stream id
  mediaRecorderRef, \* mediaRecorderRef.current: None or a recorder id
  chunksRef,        \* chunksRef.current: sequence of fragments
  healthReq, signsReq, \* the mount-time fetches: "inflight" or "done"
  camCalls, pendingCam, alerts,
  streams,          \* streams[s] \in {"live", "ended"}: every stream getUserMedia returned
  recorders,        \* every MediaRecorder created, in creation order
  timers,           \* recorder ids whose startRecording call has a pending setTimeout
  badStops,         \* stop() calls made on a recorder that was not recording
  speech,           \* the current / latest speakResult call
  speakCalls,
  playing           \* audio outputs started and not yet ended

vars == <<mounted, result, isRecording, isProcessing, isCameraActive, apiHealth,
          supportedSigns, isSpeaking, srcObject, mediaRecorderRef, chunksRef,
          healthReq, signsReq, camCalls, pendingCam, alerts, streams, recorders,
          timers, badStops, speech, speakCalls, playing>>

uiVars == <<result, isRecording, isProcessing, isCameraActive, apiHealth,
            supportedSigns, isSpeaking>>
mountVars == <<healthReq, signsReq>>
cameraVars == <<srcObject, camCalls, pendingCam, alerts, streams>>
recorderVars == <<mediaRecorderRef, chunksRef, recorders, timers, badStops>>
speechVars == <<speech, speakCalls, playing>>

RecIds == 1..Len(recorders)
StreamIds == 1..Len(streams)

IdleSpeech ==
  [phase |-> "idle", text |-> "", key |-> FALSE, synth |-> FALSE,
   status |-> "none", cloud |-> 0, local |-> 0]

Init ==
  /\ mounted = TRUE
  /\ result = ""
  /\ isRecording = FALSE
  /\ isProcessing = FALSE
  /\ isCameraActive = FALSE
  /\ apiHealth = "null"
  /\ supportedSigns = [isArray |-> TRUE, items |-> <<>>]
  /\ isSpeaking = FALSE
  /\ srcObject = None
  /\ mediaRecorderRef = None
  /\ chunksRef = <<>>
  /\ healthReq = "inflight"
  /\ signsReq = "inflight"
  /\ camCalls = 0
  /\ pendingCam = 0
  /\ alerts = 0
  /\ streams = <<>>
  /\ recorders = <<>>
  /\ timers = {}
  /\ badStops = 0
  /\ speech = IdleSpeech
  /\ speakCalls = 0
  /\ playing = {}

\* ---- SignLanguageAPI (services/signLanguageAPI.ts) ----

\* What the network can answer to GET /health: a body with status "healthy", a
\* body with another status, a body that is not JSON, or a transport error.
HealthOutcomes == {"healthy", "unhealthy", "unparsable", "network"}

\* Mutant: any parsed body counts as healthy.
checkHealth_AnyBody(o) ==
  IF o \in {"network", "unparsable"} THEN "false" ELSE "true"

checkHealth(o) ==
  IF o \in {"network", "unparsable"}
    THEN "false"                                  \* catch { return false }
    ELSE IF o = "healthy" THEN "true" ELSE "false" \* data.status === 'healthy'

\* What the network can answer to GET /supported-signs: the documented body, a
\* JSON body without a signs field, a body that is not JSON, a transport error.
SignsOutcomes == {"signs", "noshape", "unparsable", "network"}

getSupportedSignsAPI(o, list) ==
  IF o \in {"network", "unparsable"}
    THEN [isArray |-> TRUE, items |-> <<>>]       \* catch { return [] }
    ELSE IF o = "signs"
      THEN [isArray |-> TRUE, items |-> list]     \* data.signs
      ELSE [isArray |-> FALSE, items |-> <<>>]    \* data.signs is undefined

\* ---- mount-time fetches (useEffect) ----

checkAPIHealth(o) ==
  /\ healthReq = "inflight"
  /\ healthReq' = "done"
  /\ apiHealth' = checkHealth(o)
  /\ UNCHANGED <<mounted, result, isRecording, isProcessing, isCameraActive,
                 supportedSigns, isSpeaking, signsReq>>
  /\ UNCHANGED <<cameraVars, recorderVars, speechVars>>

\* The render that follows setSupportedSigns evaluates supportedSigns.length:
\* on a value that is not an array it throws, and React unmounts the component.
getSupportedSigns(o, list) ==
  /\ signsReq = "inflight"
  /\ signsReq' = "done"
  /\ supportedSigns' = getSupportedSignsAPI(o, list)
  /\ mounted' = (mounted /\ getSupportedSignsAPI(o, list).isArray)
  /\ UNCHANGED <<result, isRecording, isProcessing, isCameraActive,
                 apiHealth, isSpeaking, healthReq>>
  /\ UNCHANGED <<cameraVars, recorderVars, speechVars>>

\* ---- camera (startCamera) ----

LiveStreams == {s \in StreamIds : streams[s] = "live"}

\* The click: getUserMedia is called and awaited. The button is never disabled.
\* cap bounds the clicks of the session.
startCamera(cap) ==
  /\ mounted
  /\ camCalls < cap
  /\ camCalls' = camCalls + 1
  /\ pendingCam' = pendingCam + 1
  /\ UNCHANGED <<mounted, uiVars, mountVars, srcObject, alerts, streams>>
  /\ UNCHANGED <<recorderVars, speechVars>>

\* getUserMedia resolved with a new stream: it is bound to the preview when the
\* video element exists. The stream bound before is not touched.
startCameraGranted ==
  /\ pendingCam > 0
  /\ pendingCam' = pendingCam - 1
  /\ streams' = Append(streams, "live")
  /\ IF mounted
       THEN /\ srcObject' = Len(streams) + 1
            /\ isCameraActive' = TRUE
       ELSE UNCHANGED <<srcObject, isCameraActive>>
  /\ UNCHANGED <<mounted, result, isRecording, isProcessing, apiHealth,
                 supportedSigns, isSpeaking, camCalls, alerts>>
  /\ UNCHANGED <<mountVars, recorderVars, speechVars>>

\* Mutant: setIsCameraActive(true) outside the try block.
startCameraDenied_Activates ==
  /\ pendingCam > 0
  /\ pendingCam' = pendingCam - 1
  /\ alerts' = alerts + 1
  /\ isCameraActive' = TRUE
  /\ UNCHANGED <<mounted, result, isRecording, isProcessing, apiHealth,
                 supportedSigns, isSpeaking, mountVars, srcObject, camCalls, streams>>
  /\ UNCHANGED <<recorderVars, speechVars>>

\* getUserMedia rejected (permission denied, no device): the catch block alerts.
startCameraDenied ==
  /\ pendingCam > 0
  /\ pendingCam' = pendingCam - 1
  /\ alerts' = alerts + 1
  /\ UNCHANGED <<mounted, uiVars, mountVars, srcObject, camCalls, streams>>
  /\ UNCHANGED <<recorderVars, speechVars>>

\* The device stops delivering: every track of the stream ends (environment).
StreamEnds(s) ==
  /\ s \in LiveStreams
  /\ streams' = [streams EXCEPT ![s] = "ended"]
  /\ UNCHANGED <<mounted, uiVars, mountVars, srcObject, camCalls, pendingCam, alerts>>
  /\ UNCHANGED <<recorderVars, speechVars>>

\* ---- recorder (startRecording, its handlers and its timer) ----

\* Mutant: the button is not disabled while recording.
RecordButtonEnabled_IgnoresRecording == isCameraActive /\ ~isProcessing

\* The record button: disabled={!isCameraActive || isRecording || isProcessing}
RecordButtonEnabled == isCameraActive /\ ~isRecording /\ ~isProcessing

\* A MediaRecorder. phase: "recording" (state 'recording'); "stopping" (state
\* 'inactive', the task that fires dataavailable and stop is queued);
\* "stopped" (state 'inactive', its events were fired); "unstarted" (state
\* 'inactive', start() threw). det: the detectSign call entered by its onstop.
NewRecorder(s, ph) ==
  [stream |-> s, phase |-> ph, det |-> "none", calls |-> 0, clip |-> <<>>]

\* MediaRecorder.state
RecorderState(r) == IF recorders[r].phase = "recording" THEN "recording" ELSE "inactive"

\* MediaRecorder.start() on a stream whose tracks have all ended either throws
\* or starts a recorder that the browser then stops by itself: both happen,
\* depending on the browser.
StartOutcomes(s) ==
  IF streams[s] = "live" THEN {"started"} ELSE {"started", "threw"}

\* A click on the enabled record button. cap bounds the recordings of the session.
startRecording(cap) ==
  /\ mounted
  /\ RecordButtonEnabled
  /\ Len(recorders) < cap
  /\ IF srcObject = None
       THEN UNCHANGED vars                         \* early return
       ELSE \E o \in StartOutcomes(srcObject) :
         LET r == Len(recorders) + 1 IN
         /\ mediaRecorderRef' = r
         /\ chunksRef' = <<>>
         /\ IF o = "started"
              THEN /\ recorders' = Append(recorders, NewRecorder(srcObject, "recording"))
                   /\ isRecording' = TRUE
                   /\ timers' = timers \cup {r}
              ELSE /\ recorders' = Append(recorders, NewRecorder(srcObject, "unstarted"))
                   /\ UNCHANGED <<isRecording, timers>>
         /\ UNCHANGED <<mounted, result, isProcessing, isCameraActive, apiHealth,
                        supportedSigns, isSpeaking, badStops>>
         /\ UNCHANGED <<mountVars, cameraVars, speechVars>>

\* Sizes of the blob the dataavailable event carries: empty or not. start() is
\* called without a timeslice, so a recorder delivers one blob, when it stops.
FragSizes == {0, 1}

\* ondataavailable: if (event.data.size > 0) chunksRef.current.push(event.data)
ondataavailable(r, size) ==
  IF size > 0 THEN Append(chunksRef, r) ELSE chunksRef

\* Mutant: the timer callback does not look at the recorder's state.
AutoStopGuard_NoStateCheck == mediaRecorderRef # None

\* The guard of the timer callback: mediaRecorderRef.current?.state === 'recording'
AutoStopGuard ==
  /\ mediaRecorderRef # None
  /\ RecorderState(mediaRecorderRef) = "recording"

\* The setTimeout callback scheduled by the startRecording call that created r.
\* stop() inactivates a recording recorder at once and queues the task that
\* fires dataavailable and stop; on an inactive recorder it is a stop too many.
autoStopTimer(r) ==
  /\ r \in timers
  /\ timers' = timers \ {r}
  /\ IF AutoStopGuard
       THEN /\ IF RecorderState(mediaRecorderRef) = "recording"
                 THEN /\ recorders' = [recorders EXCEPT ![mediaRecorderRef].phase = "stopping"]
                      /\ UNCHANGED badStops
                 ELSE /\ badStops' = badStops + 1
                      /\ UNCHANGED recorders
            /\ isRecording' = FALSE
       ELSE UNCHANGED <<recorders, badStops, isRecording>>
  /\ UNCHANGED <<mounted, result, isProcessing, isCameraActive, apiHealth,
                 supportedSigns, isSpeaking, mediaRecorderRef, chunksRef>>
  /\ UNCHANGED <<mountVars, cameraVars, speechVars>>

\* Mutant: the clip is submitted twice.
onstop_DetectsTwice(r, chunks) ==
  /\ recorders' = [recorders EXCEPT ![r] =
                     [@ EXCEPT !.phase = "stopped", !.det = "inflight",
                               !.calls = @ + 2, !.clip = chunks]]
  /\ isProcessing' = TRUE

\* onstop: the clip is assembled from chunksRef.current and detectSign is
\* entered, which runs up to its await: setIsProcessing(true) and the
\* POST /detect request is sent.
onstop(r, chunks) ==
  /\ recorders' = [recorders EXCEPT ![r] =
                     [@ EXCEPT !.phase = "stopped", !.det = "inflight",
                               !.calls = @ + 1, !.clip = chunks]]
  /\ isProcessing' = TRUE

\* The two events of a stopping recorder, fired in one task: dataavailable,
\* then stop.
FireStopEvents(r, size) ==
  /\ chunksRef' = ondataavailable(r, size)
  /\ onstop(r, ondataavailable(r, size))
  /\ UNCHANGED <<mounted, result, isRecording, isCameraActive, apiHealth,
                 supportedSigns, isSpeaking, mediaRecorderRef, timers, badStops>>
  /\ UNCHANGED <<mountVars, cameraVars, speechVars>>

\* The task queued by stop().
RecorderStopTask(r, size) ==
  /\ r \in RecIds
  /\ recorders[r].phase = "stopping"
  /\ FireStopEvents(r, size)

\* The browser stops a recorder whose stream has ended: it is inactivated and
\* the same two events are fired. No code of the component runs before them.
RecorderSelfStop(r, size) ==
  /\ r \in RecIds
  /\ recorders[r].phase = "recording"
  /\ streams[recorders[r].stream] = "ended"
  /\ FireStopEvents(r, size)

\* ---- detection (detectSign) ----

\* What the backend can answer to POST /detect. The API documentation
\* answers an empty file with status 400; any request can fail in transport.
NetworkError == [net |-> TRUE, ok |-> FALSE, body |-> "none", text |-> ""]
HttpError == [net |-> FALSE, ok |-> FALSE, body |-> "error", text |-> ""]
BadBody == [net |-> FALSE, ok |-> TRUE, body |-> "unparsable", text |-> ""]
Detection(t) == [net |-> FALSE, ok |-> TRUE, body |-> "detection", text |-> t]

DetectResponses(clip) ==
  IF clip = <<>>
    THEN {NetworkError, HttpError}
    ELSE {NetworkError, HttpError, BadBody} \cup {Detection(t) : t \in ResultTexts}

\* Mutant: the status of the response is not checked.
ApiDetectSign_NoStatusCheck(resp) ==
  IF resp.net THEN [threw |-> TRUE, result |-> ""]
  ELSE IF resp.body = "unparsable" THEN [threw |-> TRUE, result |-> ""]
  ELSE [threw |-> FALSE,
        result |-> IF resp.body = "detection" THEN resp.text ELSE "undefined"]

\* SignLanguageAPI.detectSign after its fetch: throws on a transport error, on
\* !response.ok and when response.json() rejects; returns the parsed body
\* otherwise, whose result field is undefined when the body has none.
ApiDetectSign(resp) ==
  IF resp.net THEN [threw |-> TRUE, result |-> ""]
  ELSE IF ~resp.ok THEN [threw |-> TRUE, result |-> ""]
  ELSE IF resp.body = "unparsable" THEN [threw |-> TRUE, result |-> ""]
  ELSE [threw |-> FALSE,
        result |-> IF resp.body = "detection" THEN resp.text ELSE "undefined"]

\* Mutant: the catch block leaves apiHealth alone.
detectSignSettled_KeepsHealth(data) ==
  IF ~data.threw
    THEN [result |-> data.result, apiHealth |-> "true"]
    ELSE [result |-> FailureString, apiHealth |-> apiHealth]

\* Mutant: the catch block keeps the result shown before.
detectSignSettled_KeepsResult(data) ==
  IF ~data.threw
    THEN [result |-> data.result, apiHealth |-> "true"]
    ELSE [result |-> result, apiHealth |-> "false"]

\* What detectSign sets once SignLanguageAPI.detectSign has returned (try) or
\* thrown (catch).
detectSignSettled(data) ==
  IF ~data.threw
    THEN [result |-> data.result, apiHealth |-> "true"]
    ELSE [result |-> FailureString, apiHealth |-> "false"]

\* The continuation of detectSign after its await: try / catch / finally.
detectSignDone(r, resp) ==
  /\ r \in RecIds
  /\ recorders[r].det = "inflight"
  /\ resp \in DetectResponses(recorders[r].clip)
  /\ result' = detectSignSettled(ApiDetectSign(resp)).result
  /\ apiHealth' = detectSignSettled(ApiDetectSign(resp)).apiHealth
  /\ isProcessing' = FALSE
  /\ recorders' = [recorders EXCEPT ![r].det = "done"]
  /\ UNCHANGED <<mounted, isRecording, isCameraActive, supportedSigns, isSpeaking,
                 mediaRecorderRef, chunksRef, timers, badStops>>
  /\ UNCHANGED <<mountVars, cameraVars, speechVars>>

\* ---- speech (speakResult) ----

\* JavaScript truthiness of the result state: '' and undefined are falsy.
Truthy(t) == t \notin {"", "undefined"}

\* The speak button is rendered only inside {result && (...)} and is
\* disabled={isSpeaking}.
SpeakButtonEnabled == Truthy(result) /\ ~isSpeaking

\* Mutant: speakResult does not return early on a falsy result.
speakResultBody_NoEarlyReturn(key, synth) ==
  /\ isSpeaking' = TRUE
  /\ speech' = [phase |-> "fetch", text |-> result, key |-> key,
                synth |-> synth, status |-> "none", cloud |-> 0, local |-> 0]
  /\ speakCalls' = speakCalls + 1
  /\ UNCHANGED <<mounted, result, isRecording, isProcessing, isCameraActive,
                 apiHealth, supportedSigns, playing>>
  /\ UNCHANGED <<mountVars, cameraVars, recorderVars>>

\* speakResult up to its await fetch(...). speakCalls counts the calls.
\* key: NEXT_PUBLIC_OPENAI_API_KEY is set; synth: 'speechSynthesis' in window.
speakResultBody(key, synth) ==
  IF ~Truthy(result)
    THEN /\ speakCalls' = speakCalls + 1            \* if (!result) return
         /\ UNCHANGED <<mounted, uiVars, mountVars, cameraVars, recorderVars,
                        speech, playing>>
    ELSE /\ isSpeaking' = TRUE
         /\ speech' = [phase |-> "fetch", text |-> result, key |-> key,
                       synth |-> synth, status |-> "none", cloud |-> 0, local |-> 0]
         /\ speakCalls' = speakCalls + 1
         /\ UNCHANGED <<mounted, result, isRecording, isProcessing, isCameraActive,
                        apiHealth, supportedSigns, playing>>
         /\ UNCHANGED <<mountVars, cameraVars, recorderVars>>

\* A click on the speak button.
speakResult(key, synth) ==
  /\ mounted
  /\ SpeakButtonEnabled
  /\ speakCalls < MaxSpeaks
  /\ speakResultBody(key, synth)

\* speakResult called as a function, whatever is rendered: the contract
\* speak(text) of the vocalizer, with the text the session holds. One call at a
\* time.
speakResultCalled(key, synth) ==
  /\ mounted
  /\ ~isSpeaking
  /\ speakCalls < MaxSpeaks
  /\ speakResultBody(key, synth)

\* What the speech endpoint can answer: without a bearer token it never
\* answers with a success status.
SpeakOutcomes(key) ==
  IF key THEN {"ok", "status", "network"} ELSE {"status", "network"}

\* Mutant: the fallback does not test for the facility.
Fallback_Unguarded(sp) == [sp EXCEPT !.local = @ + 1]

\* Fallback to browser speech synthesis: speechSynthesis.speak(utterance)
\* when the facility exists.
Fallback(sp) ==
  IF sp.synth THEN [sp EXCEPT !.local = @ + 1] ELSE sp

FallbackAudio(sp) ==
  IF sp.synth THEN {[kind |-> "local", text |-> sp.text, call |-> speakCalls]} ELSE {}

\* The fetch settled. ok: the call goes on to await response.blob(); a
\* non-success status: to await response.text(); a rejected fetch: catch
\* (fallback) and finally.
speakResponse(o) ==
  /\ speech.phase = "fetch"
  /\ o \in SpeakOutcomes(speech.key)
  /\ IF o = "network"
       THEN /\ speech' = [Fallback(speech) EXCEPT !.phase = "idle", !.status = o]
            /\ playing' = playing \cup FallbackAudio(speech)
            /\ isSpeaking' = FALSE
       ELSE /\ speech' = [speech EXCEPT !.phase = IF o = "ok" THEN "blob" ELSE "text",
                                        !.status = o]
            /\ UNCHANGED <<playing, isSpeaking>>
  /\ UNCHANGED <<mounted, result, isRecording, isProcessing, isCameraActive,
                 apiHealth, supportedSigns, speakCalls>>
  /\ UNCHANGED <<mountVars, cameraVars, recorderVars>>

\* Mutant: setIsSpeaking(false) at the end of the try block, not in finally.
speakBody_NoFinally(readOk) ==
  /\ speech.phase \in {"blob", "text"}
  /\ IF speech.phase = "blob" /\ readOk
       THEN /\ speech' = [speech EXCEPT !.phase = "idle", !.cloud = @ + 1]
            /\ playing' = playing \cup
                 {[kind |-> "cloud", text |-> speech.text, call |-> speakCalls]}
       ELSE /\ speech' = [Fallback(speech) EXCEPT !.phase = "idle",
                            !.status = IF readOk THEN @ ELSE
                                       IF @ = "ok" THEN "ok_readfail" ELSE "status_readfail"]
            /\ playing' = playing \cup FallbackAudio(speech)
  /\ isSpeaking' = IF readOk THEN FALSE ELSE isSpeaking
  /\ UNCHANGED <<mounted, result, isRecording, isProcessing, isCameraActive,
                 apiHealth, supportedSigns, speakCalls>>
  /\ UNCHANGED <<mountVars, cameraVars, recorderVars>>

\* Mutant: once the text was spoken the result is cleared.
speakBody_ClearsResult(readOk) ==
  /\ speech.phase \in {"blob", "text"}
  /\ IF speech.phase = "blob" /\ readOk
       THEN /\ speech' = [speech EXCEPT !.phase = "idle", !.cloud = @ + 1]
            /\ playing' = playing \cup
                 {[kind |-> "cloud", text |-> speech.text, call |-> speakCalls]}
       ELSE /\ speech' = [Fallback(speech) EXCEPT !.phase = "idle",
                            !.status = IF readOk THEN @ ELSE
                                       IF @ = "ok" THEN "ok_readfail" ELSE "status_readfail"]
            /\ playing' = playing \cup FallbackAudio(speech)
  /\ isSpeaking' = FALSE
  /\ result' = ""
  /\ UNCHANGED <<mounted, isRecording, isProcessing, isCameraActive,
                 apiHealth, supportedSigns, speakCalls>>
  /\ UNCHANGED <<mountVars, cameraVars, recorderVars>>

\* The body read settled. After blob(): audio.play(), not awaited. After
\* text(): the fallback. A rejected read lands in catch: the fallback.
\* finally: setIsSpeaking(false).
speakBody(readOk) ==
  /\ speech.phase \in {"blob", "text"}
  /\ IF speech.phase = "blob" /\ readOk
       THEN /\ speech' = [speech EXCEPT !.phase = "idle", !.cloud = @ + 1]
            /\ playing' = playing \cup
                 {[kind |-> "cloud", text |-> speech.text, call |-> speakCalls]}
       ELSE /\ speech' = [Fallback(speech) EXCEPT !.phase = "idle",
                            !.status = IF readOk THEN @ ELSE
                                       IF @ = "ok" THEN "ok_readfail" ELSE "status_readfail"]
            /\ playing' = playing \cup FallbackAudio(speech)
  /\ isSpeaking' = FALSE
  /\ UNCHANGED <<mounted, result, isRecording, isProcessing, isCameraActive,
                 apiHealth, supportedSigns, speakCalls>>
  /\ UNCHANGED <<mountVars, cameraVars, recorderVars>>

\* An audio output ends (environment).
AudioEnds(a) ==
  /\ a \in playing
  /\ playing' = playing \ {a}
  /\ UNCHANGED <<mounted, uiVars, mountVars, cameraVars, recorderVars, speech, speakCalls>>

\* ---- unmount ----

\* Navigation away: React unmounts the component and videoRef.current becomes
\* null. useEffect returns no cleanup and no handler stops a track, clears a
\* timer or aborts a request, so nothing else changes. Setters called later are
\* dropped by React: from here on the state variables hold what the handlers
\* last set, and nothing renders them.
Unmount ==
  /\ mounted
  /\ mounted' = FALSE
  /\ UNCHANGED <<uiVars, mountVars, cameraVars, recorderVars, speechVars>>

\* ---- the system ----

\* What happens without a click: timers, recorder events, stream ends and
\* the continuations of the awaits of the capture session.
SessionEvents ==
  \/ startCameraGranted
  \/ startCameraDenied
  \/ \E s \in StreamIds : StreamEnds(s)
  \/ \E r \in RecIds : autoStopTimer(r)
  \/ \E r \in RecIds, z \in FragSizes : RecorderStopTask(r, z)
  \/ \E r \in RecIds, z \in FragSizes : RecorderSelfStop(r, z)
  \/ \E r \in RecIds : \E resp \in DetectResponses(recorders[r].clip) : detectSignDone(r, resp)

\* The capture session: camera, recorder and detection.
Next ==
  \/ startCamera(MaxCameraCalls)
  \/ startRecording(MaxRecorders)
  \/ SessionEvents

Spec == Init /\ [][Next]_vars

\* The capture session on a single camera grant, with more recordings.
NextRace ==
  \/ startCamera(1)
  \/ startRecording(RaceRecorders)
  \/ SessionEvents

SpecRace == Init /\ [][NextRace]_vars

\* The mount-time fetches next to a capture session on a single camera grant:
\* the health check writes the same apiHealth as detection does.
NextMount ==
  \/ \E o \in HealthOutcomes : checkAPIHealth(o)
  \/ \E o \in SignsOutcomes, l \in SignLists : getSupportedSigns(o, l)
  \/ startCamera(1)
  \/ startRecording(MountRecorders)
  \/ SessionEvents

SpecMount == Init /\ [][NextMount]_vars

\* The vocalizer next to a capture session on a single camera grant: speech
\* reads the session only through result.
NextSpeak ==
  \/ startCamera(1)
  \/ startRecording(SpeakRecorders)
  \/ SessionEvents
  \/ \E k \in BOOLEAN, y \in BOOLEAN : speakResult(k, y)
  \/ \E o \in {"ok", "status", "network"} : speakResponse(o)
  \/ \E b \in BOOLEAN : speakBody(b)
  \/ \E a \in playing : AudioEnds(a)

SpecSpeak == Init /\ [][NextSpeak]_vars

\* The same, with speakResult called as a function.
NextSpeakCalled ==
  \/ startCamera(1)
  \/ startRecording(SpeakRecorders)
  \/ SessionEvents
  \/ \E k \in BOOLEAN, y \in BOOLEAN : speakResultCalled(k, y)
  \/ \E o \in {"ok", "status", "network"} : speakResponse(o)
  \/ \E b \in BOOLEAN : speakBody(b)
  \/ \E a \in playing : AudioEnds(a)

SpecSpeakCalled == Init /\ [][NextSpeakCalled]_vars

\* A capture session that is navigated away from.
NextUnmount ==
  \/ startCamera(MaxCameraCalls)
  \/ startRecording(UnmountRecorders)
  \/ SessionEvents
  \/ Unmount

SpecUnmount == Init /\ [][NextUnmount]_vars

\* Every operation of the component in one session on a single camera grant:
\* the mount-time fetches, the capture session and the vocalizer.
NextWhole ==
  \/ \E o \in HealthOutcomes : checkAPIHealth(o)
  \/ \E o \in SignsOutcomes, l \in SignLists : getSupportedSigns(o, l)
  \/ startCamera(1)
  \/ startRecording(WholeRecorders)
  \/ SessionEvents
  \/ \E k \in BOOLEAN, y \in BOOLEAN : speakResult(k, y)
  \/ \E o \in {"ok", "status", "network"} : speakResponse(o)
  \/ \E b \in BOOLEAN : speakBody(b)
  \/ \E a \in playing : AudioEnds(a)

SpecWhole == Init /\ [][NextWhole]_vars

\* ---- properties ----

Recording == {r \in RecIds : RecorderState(r) = "recording"}
DetectInFlight == {r \in RecIds : recorders[r].det = "inflight"}

\* A POST /detect answer that is a success: a success status and a body that
\* parses.
DetectSucceeded(resp) == ~resp.net /\ resp.ok /\ resp.body = "detection"

\* C1: at most one acquired camera stream is live; a successful startCamera
\* releases the stream bound before.
C1_AtMostOneLiveStream == Cardinality(LiveStreams) <= 1

\* What a start of a recording does: a recorder is created, the fragment
\* buffer is reset, a timer is scheduled.
StartEffect ==
  \/ Len(recorders') > Len(recorders)
  \/ chunksRef' = <<>> /\ chunksRef # <<>>
  \/ ~(timers' \subseteq timers)

\* C2: a start-recording request has no effect while a recording is active,
\* no stream is bound, or a detection request is in flight.
C2_StartIsGuarded ==
  [][StartEffect => (Recording = {} /\ srcObject # None /\ DetectInFlight = {})]_vars

\* C3: at most one detect request is outstanding.
C3_SingleOutstandingDetect == Cardinality(DetectInFlight) <= 1

\* C4: at most one recorder is in the 'recording' state, also after the
\* camera was restarted while a recording is in progress.
C4_AtMostOneRecording == Cardinality(Recording) <= 1

\* C4 witness: a recording on a stream that is no longer the bound one.
C4_Witness ==
  \E r \in Recording : srcObject # None /\ srcObject # recorders[r].stream

\* C5: once the timer of a recording has fired that recording is stopped,
\* whatever was buffered, and stop() is never called on a recorder that is not
\* recording.
C5_StoppedWhenTimerFired ==
  /\ \A r \in RecIds :
       (recorders[r].phase # "unstarted" /\ r \notin timers) => r \notin Recording
  /\ badStops = 0

\* C5 witness: a timer has stopped its recording with nothing buffered.
C5_Witness ==
  \E r \in RecIds : r \notin timers /\ recorders[r].phase = "stopping" /\ chunksRef = <<>>

\* C6: detectSign is entered for a recording at most once, exactly when that
\* recording's stop event is handled and never while it records; the end of a
\* detection, failed or not, enters no detection.
C6_OneDetectPerRecording ==
  [][\A r \in 1..Len(recorders') :
       LET before == IF r \in RecIds THEN recorders[r].calls ELSE 0 IN
       /\ recorders'[r].calls <= 1
       /\ (recorders'[r].calls = 1) <=> (recorders'[r].phase = "stopped")
       /\ recorders'[r].calls > before =>
            /\ r \in RecIds
            /\ recorders[r].phase \in {"recording", "stopping"}]_vars

\* C6 witness: a detection has failed and nothing is in flight.
C6_Witness ==
  /\ result = FailureString
  /\ DetectInFlight = {}
  /\ \E r \in RecIds : recorders[r].det = "done" /\ recorders[r].calls = 1

\* C7: right after a detectSign call completes apiHealth is Up if the call
\* succeeded and Down if it failed, whatever it was before.
C7_HealthFollowsDetect ==
  [][\A r \in RecIds : \A resp \in DetectResponses(recorders[r].clip) :
       detectSignDone(r, resp) =>
         apiHealth' = IF DetectSucceeded(resp) THEN "true" ELSE "false"]_vars

\* C7 witness: a second detection has ended, on a health value that the first
\* one had set, and health is Down.
C7_Witness ==
  /\ apiHealth = "false"
  /\ Cardinality({r \in RecIds : recorders[r].det = "done"}) = 2

\* C8: right after a detectSign call completes the result shown is the
\* backend's text if the call succeeded and the fixed failure string if not;
\* result never holds anything else.
C8_ResultFollowsDetect ==
  [][/\ \A r \in RecIds : \A resp \in DetectResponses(recorders[r].clip) :
          detectSignDone(r, resp) =>
            result' = IF DetectSucceeded(resp) THEN resp.text ELSE FailureString
     /\ result' \in {""} \cup ResultTexts \cup {FailureString}]_vars

\* C8 witness: the detection of a clip has ended and a text of the backend is
\* shown.
C8_Witness ==
  /\ result \in ResultTexts
  /\ \E r \in RecIds : recorders[r].det = "done" /\ recorders[r].clip # <<>>

SpokeCloud == speech.cloud = 1 /\ speech.local = 0

\* The speakResult call that has returned spoke on the local path if the
\* facility exists, and not at all if it does not.
SpokeLocal == speech.cloud = 0 /\ speech.local = (IF speech.synth THEN 1 ELSE 0)

\* A step of speakResult surfaces no error and speaks the text shown at the click.
SpeakStepIsSilent ==
  /\ speech' # speech => (alerts' = alerts /\ result' = result)
  /\ (speech'.phase = "fetch" /\ speech.phase # "fetch") =>
       (speech'.text = result /\ Truthy(speech'.text))
  /\ \A a \in playing' \ playing : a.text = speech'.text

\* C10 as stated: a success status means the cloud audio is played once and no
\* local synthesis; a non-success status or a network error means local
\* synthesis once if the facility exists and nothing if not.
C10_OnePathByStatus ==
  [][/\ SpeakStepIsSilent
     /\ speech'.phase # "idle" => (speech'.cloud = 0 /\ speech'.local = 0)
     /\ (speech'.phase = "idle" /\ speech'.status \in {"ok", "ok_readfail"}) => SpokeCloud'
     /\ (speech'.phase = "idle" /\ speech'.status \in {"status", "status_readfail", "network"})
          => SpokeLocal']_vars

\* C10 amended: the cloud audio is played once, and no local synthesis, when
\* the status is a success and the audio body was read; in every other case (a
\* non-success status, a rejected fetch, a rejected body read after either
\* status) local synthesis speaks once if the facility exists and nothing is
\* output if not. No error is surfaced.
C10_OnePathByOutcome ==
  [][/\ SpeakStepIsSilent
     /\ speech'.phase # "idle" => (speech'.cloud = 0 /\ speech'.local = 0)
     /\ (speech'.phase = "idle" /\ speech'.status = "ok") => SpokeCloud'
     /\ (speech'.phase = "idle" /\
         speech'.status \in {"ok_readfail", "status", "status_readfail", "network"})
          => SpokeLocal'
     /\ (speech'.phase = "idle" /\ speech'.status # "none" /\ ~speech'.key) => SpokeLocal']_vars

\* C10 witness: a call whose audio body could not be read has returned and
\* spoke locally.
C10_Witness ==
  /\ speech.phase = "idle"
  /\ speech.status = "ok_readfail"
  /\ speech.local = 1
  /\ \E a \in playing : a.kind = "local" /\ a.text = speech.text

\* C11: speakResult with an empty result text is a no-op: while the text is
\* empty no request is sent, no audio starts and isSpeaking does not change.
C11_EmptyTextIsNoOp ==
  [][result = "" =>
       (speech' = speech /\ playing' = playing /\ isSpeaking' = isSpeaking)]_vars

\* C11 witness: speakResult was called with the empty text and nothing happened.
C11_Witness ==
  /\ result = ""
  /\ speakCalls > 0
  /\ speech = IdleSpeech
  /\ playing = {}
  /\ ~isSpeaking

\* C12: isSpeaking is true exactly while a speakResult call with non-empty
\* text is between its start and its exit: set before the cloud attempt, and
\* false again once the call has returned, on every path.
C12_SpeakingWhileCallRuns ==
  /\ isSpeaking <=> speech.phase # "idle"
  /\ speech.phase # "idle" => Truthy(speech.text)

\* C12 witness: a call whose error body could not be read has returned and
\* isSpeaking is false.
C12_Witness ==
  /\ speech.phase = "idle"
  /\ speech.status = "status_readfail"
  /\ ~isSpeaking

\* Outputs that sound at once: every cloud playback is its own Audio element;
\* the utterances of speechSynthesis queue one behind the other.
Sounding ==
  Cardinality({a \in playing : a.kind = "cloud"})
    + (IF \E a \in playing : a.kind = "local" THEN 1 ELSE 0)

\* C13: at most one vocalization is in progress per session: no audio output
\* of a speakResult starts while the output of an earlier one still plays.
C13_OneVocalization == Sounding <= 1

\* A getUserMedia call settles without a stream.
AcquisitionFails == pendingCam' = pendingCam - 1 /\ streams' = streams

\* C14: a failed camera acquisition keeps isCameraActive as it was, binds no
\* stream and shows a notice; while no stream is bound no recording starts;
\* and isCameraActive is true only when a stream is bound to the preview.
C14_FailedAcquisition ==
  [][/\ AcquisitionFails =>
          /\ isCameraActive' = isCameraActive
          /\ srcObject' = srcObject
          /\ alerts' = alerts + 1
     /\ srcObject = None => (recorders' = recorders /\ isRecording' = isRecording)
     /\ isCameraActive' => srcObject' # None]_vars

\* C14 witness: the acquisition failed with no stream bound before: a notice
\* was shown, the camera is not active and nothing was recorded.
C14_Witness ==
  /\ alerts > 0
  /\ pendingCam = 0
  /\ srcObject = None
  /\ ~isCameraActive
  /\ recorders = <<>>

\* C15: checkHealth never throws: its answer is Up exactly when a body was
\* parsed and its status is "healthy", and Down for a transport error, an
\* unparsable body or any other status.
C15_HealthCheckOutcome ==
  [][\A o \in HealthOutcomes :
       checkAPIHealth(o) =>
         apiHealth' = (IF o = "healthy" THEN "true" ELSE "false")]_vars

\* C15 witness: the mount-time check has answered Down before any detection.
C15_Witness ==
  /\ healthReq = "done"
  /\ apiHealth = "false"
  /\ recorders = <<>>

\* C16: getSupportedSigns always resolves to a list, possibly empty, so the
\* stored supportedSigns is a list whatever the backend answered and
\* supportedSigns.length can be rendered.
C16_SignsIsAList == supportedSigns.isArray

\* C17: the derived status is faithful: isRecording is true exactly when a
\* recorder is in state 'recording', isProcessing exactly when a detect request
\* is in flight, and the two are never true together.
C17_StatusIsFaithful ==
  /\ isRecording <=> Recording # {}
  /\ isProcessing <=> DetectInFlight # {}
  /\ ~(isRecording /\ isProcessing)

\* Nothing of the capture session is pending: no timer, no recorder that
\* records or is about to deliver its stop events, no detect request.
Quiescent ==
  /\ timers = {}
  /\ \A r \in RecIds : recorders[r].phase \in {"unstarted", "stopped"}
  /\ DetectInFlight = {}

\* C18: every started recording brings the workflow back to Idle: once the
\* timer has fired and the detect call has settled, isRecording and
\* isProcessing are both false.
C18_BackToIdle ==
  (recorders # <<>> /\ Quiescent) => (~isRecording /\ ~isProcessing)

\* C19: the clip handed to detectSign holds fragments of its own recording
\* only, each at most once.
C19_ClipIsOwnFragments ==
  \A r \in RecIds :
    recorders[r].det # "none" =>
      /\ Len(recorders[r].clip) <= 1
      /\ \A i \in 1..Len(recorders[r].clip) : recorders[r].clip[i] = r

\* C20: once a detectSign call has completed, apiHealth keeps the value that
\* call gave it until the next detectSign call completes, and apiHealth never
\* goes back to null.
C20_HealthKeptUntilNextDetect ==
  [][/\ ((\E r \in RecIds : recorders[r].det = "done")
           /\ \A r \in RecIds : recorders'[r].det = recorders[r].det)
        => apiHealth' = apiHealth
     /\ apiHealth # "null" => apiHealth' # "null"]_vars

\* C21: camera use does not depend on the mount-time fetches: the camera
\* button is there and the record button is enabled by the camera and the
\* workflow alone, in every value of apiHealth and before and after the signs
\* fetch; and each of the two fetches leaves the other's state alone, so they
\* complete in either order with the same result.
C21_CameraUseIndependent ==
  [][/\ mounted'
     /\ (isCameraActive' /\ ~isRecording' /\ ~isProcessing') => RecordButtonEnabled'
     /\ healthReq' # healthReq => (supportedSigns' = supportedSigns /\ signsReq' = signsReq)
     /\ signsReq' # signsReq => (apiHealth' = apiHealth /\ healthReq' = healthReq)]_vars

\* C22: the auto-stop timer of a recording only ever stops that recording:
\* every pending timer belongs to the recorder mediaRecorderRef holds, and a
\* recorder that stop() is called on is stopped by the firing of its own timer.
C22_TimerStopsOwnRecording ==
  [][/\ \A t \in timers' : t = mediaRecorderRef'
     /\ \A r \in RecIds :
          (recorders[r].phase = "recording" /\ recorders'[r].phase = "stopping")
            => (r \in timers /\ r \notin timers')]_vars

\* C22 witness: a second recording of the session has been stopped by its
\* timer.
C22_Witness ==
  /\ Len(recorders) = 2
  /\ recorders[2].phase = "stopping"
  /\ recorders[1].phase = "stopped"
  /\ timers = {}

\* C23: result changes only when a detectSign call completes: the camera, the
\* start and stop of a recording, the mount-time fetches and speakResult leave
\* it alone, so the result of the last detection stays held.
C23_ResultChangesOnlyOnDetect ==
  [][result' # result =>
       \E r \in RecIds : recorders[r].det = "inflight" /\ recorders'[r].det = "done"]_vars

\* C23 witness: the result of a detection is still held after both fetches
\* were answered and speakResult has spoken it twice.
C23_Witness ==
  /\ \E r \in RecIds : recorders[r].det = "done"
  /\ result \in ResultTexts
  /\ speakCalls = 2
  /\ speech.phase = "idle"
  /\ healthReq = "done"
  /\ signsReq = "done"
  /\ mounted

\* C24: once the component is unmounted the session is torn down: no acquired
\* stream is live any more, and no timer or callback of the session starts a
\* detect request.
C24_TornDownOnUnmount ==
  [][~mounted' =>
       /\ LiveStreams' = {}
       /\ \A r \in RecIds :
            recorders'[r].det = "inflight" => recorders[r].det = "inflight"]_vars

====
